---- MODULE Spec2Model ----
(***************************************************************************)
(* Model of the photovoltaic string-sizing engine (src/pv_core.py).        *)
(*                                                                         *)
(* Every function of the engine is pure.  Each one is an operator of the   *)
(* same name, computed as the code computes it.  A behaviour is one call:  *)
(* the initial state holds the function called (fn) and its arguments      *)
(* (inp), and the function's action applies it and stores what it          *)
(* returned (out).                                                         *)
(*                                                                         *)
(* Python floats are modelled as exact rationals [n, d] (d > 0, lowest     *)
(* terms); math.nan is the value NaN, with Python's comparison rules       *)
(* (every ordered comparison with NaN is false).  IEEE rounding is not     *)
(* modelled.  A Python exception is the field "raised" of a result.        *)
(***************************************************************************)
EXTENDS Integers, Sequences, FiniteSets, TLC

VARIABLES fn, pc, inp, out

vars == <<fn, pc, inp, out>>

(***************************************************************************)
(* Floats                                                                  *)
(***************************************************************************)
Abs(x) == IF x < 0 THEN -x ELSE x

RECURSIVE GCD(_, _)
GCD(a, b) == IF b = 0 THEN a ELSE GCD(b, a % b)

\* n/d in lowest terms with a positive denominator (d # 0)
R(n, d) ==
    LET s == IF d < 0 THEN -1 ELSE 1
        g == GCD(Abs(n), Abs(d))
    IN  [n |-> (s * n) \div g, d |-> (s * d) \div g]

I(k) == [n |-> k, d |-> 1]

NaN == [n |-> 0, d |-> 0]

IsNaN(a) == a.d = 0

FAdd(a, b) == IF IsNaN(a) \/ IsNaN(b) THEN NaN ELSE R(a.n * b.d + b.n * a.d, a.d * b.d)
FSub(a, b) == IF IsNaN(a) \/ IsNaN(b) THEN NaN ELSE R(a.n * b.d - b.n * a.d, a.d * b.d)
FMul(a, b) ==
    IF IsNaN(a) \/ IsNaN(b) THEN NaN
    ELSE LET x == R(a.n, b.d)
             y == R(b.n, a.d)
         IN  [n |-> x.n * y.n, d |-> x.d * y.d]
\* a / b for b # 0 (the callers decide what a zero divisor does)
FDiv(a, b) ==
    IF IsNaN(a) \/ IsNaN(b) THEN NaN
    ELSE LET x == R(a.n, b.n)
             y == R(b.d, a.d)
         IN  R(x.n * y.n, x.d * y.d)

FLt(a, b) == ~IsNaN(a) /\ ~IsNaN(b) /\ a.n * b.d < b.n * a.d
FLe(a, b) == ~IsNaN(a) /\ ~IsNaN(b) /\ a.n * b.d <= b.n * a.d
FGt(a, b) == FLt(b, a)
FGe(a, b) == FLe(b, a)
FEq(a, b) == ~IsNaN(a) /\ ~IsNaN(b) /\ a = b

\* Python's min(a, b) and max(a, b): the first argument unless the second beats it
FMin(a, b) == IF FLt(b, a) THEN b ELSE a
FMax(a, b) == IF FGt(b, a) THEN b ELSE a

\* math.floor and math.ceil of a number (not NaN)
Floor(a) == a.n \div a.d
Ceil(a) == -((-a.n) \div a.d)

IMin(a, b) == IF b < a THEN b ELSE a
IMax(a, b) == IF b > a THEN b ELSE a

RECURSIVE Sum(_)
Sum(s) == IF s = <<>> THEN 0 ELSE Head(s) + Sum(Tail(s))

(***************************************************************************)
(* Energy target and temperature derating                                  *)
(***************************************************************************)
\* the result of a call that may raise: a value, or the exception's name
Ok(v) == [raised |-> "", value |-> v]
Raise(e) == [raised |-> e, value |-> NaN]

\* float / float raises ZeroDivisionError on a zero divisor
energy_daily_from_monthly_kwh(kwh_month, days_per_month) ==
    IF days_per_month.n = 0 /\ ~IsNaN(days_per_month) THEN Raise("ZeroDivisionError")
    ELSE Ok(FDiv(FMul(kwh_month, I(1000)), days_per_month))

\* required_pv_power_wp returning 0.0 instead of math.nan
required_pv_power_wp_Zero(E_daily_Wh, HSP, PR) ==
    IF FLe(HSP, I(0)) \/ FLe(PR, I(0)) THEN I(0)
    ELSE FDiv(E_daily_Wh, FMul(HSP, PR))

required_pv_power_wp(E_daily_Wh, HSP, PR) ==
    IF FLe(HSP, I(0)) \/ FLe(PR, I(0)) THEN NaN
    ELSE FDiv(E_daily_Wh, FMul(HSP, PR))

\* line 37 with the temperature itself in place of its distance from 25 C
temp_adjust_NoReference(value_stc, coeff_pct_per_C, delta_T) ==
    FMul(value_stc,
         FAdd(I(1), FMul(FDiv(coeff_pct_per_C, I(100)), FAdd(delta_T, I(25)))))

temp_adjust(value_stc, coeff_pct_per_C, delta_T) ==
    FMul(value_stc, FAdd(I(1), FMul(FDiv(coeff_pct_per_C, I(100)), delta_T)))

\* module_at_temps with Vmp derated at the hot cell temperature, as the
\* variants with a gamma coefficient do
module_at_temps_HotVmp(mod, T_cell_hot, T_amb_cold) ==
    [vmp_hot |-> temp_adjust(mod.vmp, mod.beta_voc_pct_per_C, FSub(T_cell_hot, I(25))),
     voc_cold |-> temp_adjust(mod.voc, mod.beta_voc_pct_per_C, FSub(T_amb_cold, I(25))),
     isc_cold |-> mod.isc]

\* Vmp and Isc stay at their STC values; only Voc is derated (beta, cold)
module_at_temps(mod, T_cell_hot, T_amb_cold) ==
    LET delta_cold == FSub(T_amb_cold, I(25))
    IN  [vmp_hot |-> mod.vmp,
         voc_cold |-> temp_adjust(mod.voc, mod.beta_voc_pct_per_C, delta_cold),
         isc_cold |-> mod.isc]

estimate_production_kwh_day(total_wp, HSP, PR) ==
    FMul(FMul(FDiv(total_wp, I(1000)), HSP), PR)

(***************************************************************************)
(* check_string and suggest_series_range                                   *)
(***************************************************************************)
\* line 58 without the "if inv.mppt_max_v > 0 else True" guard
mppt_max_ok_NoUnbounded(vmp_hot_str, inv) == FLe(vmp_hot_str, inv.mppt_max_v)

\* "mppt_max_ok", line 58
mppt_max_ok(vmp_hot_str, inv) ==
    IF FGt(inv.mppt_max_v, I(0)) THEN FLe(vmp_hot_str, inv.mppt_max_v) ELSE TRUE

\* line 59 as pv_calc_cli.py and pv_calc_console.py have it: the inverter's
\* ceiling alone
vdc_max_ok_InverterOnly(voc_cold_str, mod, inv) == FLe(voc_cold_str, inv.vdc_max)

\* "vdc_max_ok", line 59
vdc_max_ok(voc_cold_str, mod, inv) ==
    FLe(voc_cold_str, FMin(inv.vdc_max, mod.max_system_v))

\* the five checks of check_string, lines 56-62
string_checks(vmp_hot_str, voc_cold_str, imp_total, isc_total, mod, inv) ==
    [mppt_min_ok |-> FGe(vmp_hot_str, inv.mppt_min_v),
     mppt_max_ok |-> mppt_max_ok(vmp_hot_str, inv),
     vdc_max_ok |-> vdc_max_ok(voc_cold_str, mod, inv),
     imax_ok |-> FLe(imp_total, inv.imax_mppt),
     iscmax_ok |-> FLe(isc_total, inv.iscmax_mppt)]

\* all(...) stopping at the current checks, the short-circuit-current one left out
all_checks_SkipIscmax(checks) ==
    /\ checks.mppt_min_ok
    /\ checks.mppt_max_ok
    /\ checks.vdc_max_ok
    /\ checks.imax_ok

\* all(checks.values())
all_checks(checks) ==
    /\ checks.mppt_min_ok
    /\ checks.mppt_max_ok
    /\ checks.vdc_max_ok
    /\ checks.imax_ok
    /\ checks.iscmax_ok

check_string(n_series, n_parallel, mod, inv, T_cell_hot, T_amb_cold) ==
    LET temps == module_at_temps(mod, T_cell_hot, T_amb_cold)
        vmp_hot_str == FMul(I(n_series), temps.vmp_hot)
        voc_cold_str == FMul(I(n_series), temps.voc_cold)
        imp_str == mod.imp
        isc_total == FMul(I(n_parallel), temps.isc_cold)
        imp_total == FMul(I(n_parallel), imp_str)
        checks == string_checks(vmp_hot_str, voc_cold_str, imp_total, isc_total,
                                mod, inv)
    IN  [n_series |-> n_series,
         n_parallel |-> n_parallel,
         vmp_hot_string_V |-> vmp_hot_str,
         voc_cold_string_V |-> voc_cold_str,
         imp_string_A |-> imp_str,
         isc_cold_total_A |-> isc_total,
         imp_total_A |-> imp_total,
         checks |-> checks,
         is_compatible |-> all_checks(checks),
         temps |-> temps]

\* the sentinel of an unbounded maximum, lines 86-87
NoSeriesLimit == 999

\* line 84 with math.floor in place of math.ceil
min_series_of_Floor(mppt_min_v, vmp_hot_mod) ==
    IF FGt(vmp_hot_mod, I(0)) THEN Floor(FDiv(mppt_min_v, vmp_hot_mod)) ELSE 1

\* "min_series", line 84
min_series_of(mppt_min_v, vmp_hot_mod) ==
    IF FGt(vmp_hot_mod, I(0)) THEN Ceil(FDiv(mppt_min_v, vmp_hot_mod)) ELSE 1

\* line 87 with math.ceil in place of math.floor
max_series_mppt_of_Ceil(mppt_max_v, vmp_hot_mod) ==
    IF FGt(mppt_max_v, I(0)) /\ FGt(vmp_hot_mod, I(0))
    THEN Ceil(FDiv(mppt_max_v, vmp_hot_mod)) ELSE NoSeriesLimit

\* "max_series_mppt", line 87
max_series_mppt_of(mppt_max_v, vmp_hot_mod) ==
    IF FGt(mppt_max_v, I(0)) /\ FGt(vmp_hot_mod, I(0))
    THEN Floor(FDiv(mppt_max_v, vmp_hot_mod)) ELSE NoSeriesLimit

\* line 88 with the MPPT window's maximum alone
max_series_of_MpptOnly(max_series_vlimit, max_series_mppt) == max_series_mppt

\* "max_series", line 88
max_series_of(max_series_vlimit, max_series_mppt) ==
    IMin(max_series_vlimit, max_series_mppt)

suggest_series_range(mod, inv, T_cell_hot, T_amb_cold) ==
    LET temps == module_at_temps(mod, T_cell_hot, T_amb_cold)
        vmp_hot_mod == temps.vmp_hot
        voc_cold_mod == temps.voc_cold
        min_series == min_series_of(inv.mppt_min_v, vmp_hot_mod)
        vlimit == FMin(inv.vdc_max, mod.max_system_v)
        max_series_vlimit == IF FGt(voc_cold_mod, I(0))
                             THEN Floor(FDiv(vlimit, voc_cold_mod)) ELSE NoSeriesLimit
        max_series_mppt == max_series_mppt_of(inv.mppt_max_v, vmp_hot_mod)
    IN  [min_series |-> IMax(min_series, 1),
         max_series_vlimit |-> max_series_vlimit,
         vlimit_used |-> vlimit,
         max_series_mppt |-> max_series_mppt,
         max_series |-> max_series_of(max_series_vlimit, max_series_mppt),
         vmp_hot_mod |-> vmp_hot_mod,
         voc_cold_mod |-> voc_cold_mod]

(***************************************************************************)
(* plan_distribution                                                       *)
(***************************************************************************)
\* first pass, "for i in range(n_mppt)": one string per channel while any remain
RECURSIVE FirstPass(_, _, _)
FirstPass(dist, remain, i) ==
    IF i > Len(dist) \/ remain <= 0 THEN [dist |-> dist, remain |-> remain]
    ELSE LET give == IMin(1, remain)
         IN  FirstPass([dist EXCEPT ![i] = give], remain - give, i + 1)

\* LevelPass with "remain -= 1" forgotten
RECURSIVE LevelPass_NoDecrement(_, _, _, _, _)
LevelPass_NoDecrement(dist, remain, level, max_parallel_per_mppt, i) ==
    IF i > Len(dist) \/ remain <= 0 THEN [dist |-> dist, remain |-> remain]
    ELSE IF dist[i] < level /\ dist[i] < max_parallel_per_mppt
         THEN LevelPass_NoDecrement([dist EXCEPT ![i] = @ + 1], remain, level,
                                    max_parallel_per_mppt, i + 1)
         ELSE LevelPass_NoDecrement(dist, remain, level, max_parallel_per_mppt, i + 1)

\* one round of the while loop, "for i in range(n_mppt)" at a given level
RECURSIVE LevelPass(_, _, _, _, _)
LevelPass(dist, remain, level, max_parallel_per_mppt, i) ==
    IF i > Len(dist) \/ remain <= 0 THEN [dist |-> dist, remain |-> remain]
    ELSE IF dist[i] < level /\ dist[i] < max_parallel_per_mppt
         THEN LevelPass([dist EXCEPT ![i] = @ + 1], remain - 1, level,
                        max_parallel_per_mppt, i + 1)
         ELSE LevelPass(dist, remain, level, max_parallel_per_mppt, i + 1)

\* the loop of line 107 as an "if": a single round above the first
Levels_SingleRound(dist, remain, level, max_parallel_per_mppt) ==
    IF remain > 0 /\ level <= max_parallel_per_mppt
    THEN LevelPass(dist, remain, level, max_parallel_per_mppt, 1)
    ELSE [dist |-> dist, remain |-> remain]

\* "while remain > 0 and level <= max_parallel_per_mppt"
RECURSIVE Levels(_, _, _, _)
Levels(dist, remain, level, max_parallel_per_mppt) ==
    IF remain > 0 /\ level <= max_parallel_per_mppt
    THEN LET r == LevelPass(dist, remain, level, max_parallel_per_mppt, 1)
         IN  Levels(r.dist, r.remain, level + 1, max_parallel_per_mppt)
    ELSE [dist |-> dist, remain |-> remain]

plan_distribution(required_strings, n_mppt, max_parallel_per_mppt) ==
    LET dist0 == [i \in 1..IMax(0, n_mppt) |-> 0]
        p1 == FirstPass(dist0, IMax(0, required_strings), 1)
        p2 == Levels(p1.dist, p1.remain, 2, max_parallel_per_mppt)
    IN  [dist |-> p2.dist, leftover |-> p2.remain]

(***************************************************************************)
(* Calls of plan_distribution                                              *)
(***************************************************************************)
MaxRequired == 7
MaxMppt == 3
MaxPar == 3

\* required_strings is an int: negative values are clamped by the code
MinRequired == 0 - 2

NoValue == [none |-> TRUE]

Returned(f) == pc = "return" /\ fn = f

PlanInputs ==
    [required_strings : MinRequired..MaxRequired, n_mppt : 0..MaxMppt,
     max_parallel_per_mppt : 0..MaxPar]

InitPlan ==
    /\ fn = "plan_distribution"
    /\ pc = "call"
    /\ inp \in PlanInputs
    /\ out = NoValue

PlanDistribution ==
    /\ pc = "call"
    /\ fn = "plan_distribution"
    /\ out' = plan_distribution(inp.required_strings, inp.n_mppt,
                                inp.max_parallel_per_mppt)
    /\ pc' = "return"
    /\ UNCHANGED <<fn, inp>>

NextPlan == PlanDistribution

SpecPlan == InitPlan /\ [][NextPlan]_vars

Capacity == inp.n_mppt * inp.max_parallel_per_mppt

\* C1 (as claimed): plan_distribution assigns to no channel more than
\* max_parallel_per_mppt strings, for every max_parallel_per_mppt >= 0.
\* The first pass hands out one string per channel without reading the cap,
\* so the statement fails for max_parallel_per_mppt = 0.
C1_NoChannelAboveCap ==
    Returned("plan_distribution") =>
        \A i \in 1..Len(out.dist) : out.dist[i] <= inp.max_parallel_per_mppt

\* C2 (as claimed): the assigned total is <= required_strings and leftover is
\* required_strings - sum(assigned), for every input; leftover is 0 whenever
\* the capacity n_mppt * max_parallel_per_mppt covers required_strings.
C2_AsClaimed ==
    Returned("plan_distribution") =>
        /\ Sum(out.dist) <= inp.required_strings
        /\ out.leftover = inp.required_strings - Sum(out.dist)
        /\ (Capacity >= inp.required_strings => out.leftover = 0)

\* C2 (amended): the same with required_strings clamped at 0, as the code
\* clamps it: the assigned total is <= max(0, required_strings), leftover is
\* max(0, required_strings) - sum(assigned), and leftover is 0 whenever the
\* capacity covers required_strings.
C2_TotalAndLeftover ==
    Returned("plan_distribution") =>
        /\ Sum(out.dist) <= IMax(0, inp.required_strings)
        /\ out.leftover = IMax(0, inp.required_strings) - Sum(out.dist)
        /\ (Capacity >= inp.required_strings => out.leftover = 0)

\* a plan that ran through the levels and still left demand unassigned
C2_Witness ==
    /\ Returned("plan_distribution")
    /\ inp.max_parallel_per_mppt >= 2
    /\ inp.n_mppt >= 2
    /\ Sum(out.dist) = Capacity
    /\ out.leftover > 0

(***************************************************************************)
(* Calls of check_string and suggest_series_range                          *)
(***************************************************************************)
MaxSeries == 4
MaxParallel == 2

\* the 450 W preset module (41.5 V, 10.85 A, 49.3 V, 11.6 A, -0.27 %/C) and
\* variations of it, among them the degenerate Vmp of 0 and of -1 V
Modules ==
    [wp : {I(450)},
     vmp : {R(83, 2), I(30), I(0), I(0 - 1)},
     imp : {R(217, 20), I(5)},
     voc : {R(493, 10)},
     isc : {R(58, 5), R(13, 2)},
     max_system_v : {I(1000), I(100)},
     beta_voc_pct_per_C : {R(0 - 27, 100)}]

\* the preset inverter (80-550 V, 600 V, 11 A, 13.8 A, 2 MPPT) and variations
\* of it, among them an unbounded MPPT window (mppt_max_v of 0 and of -1)
Inverters ==
    [mppt_min_v : {I(80), I(125)},
     mppt_max_v : {I(550), I(100), I(0), I(0 - 1)},
     vdc_max : {I(600), I(150)},
     imax_mppt : {I(11)},
     iscmax_mppt : {R(69, 5)},
     n_mppt : {2}]

ColdTemps == {I(8), I(25), I(0 - 10)}
HotTemps == {I(65)}

CheckInputs ==
    [n_series : 1..MaxSeries, n_parallel : 1..MaxParallel, mod : Modules,
     inv : Inverters, T_cell_hot : HotTemps, T_amb_cold : ColdTemps]

\* the modules, and the same with a Voc of 0
RangeModules == Modules \cup {[mod EXCEPT !.voc = I(0)] : mod \in Modules}

RangeInputs ==
    [mod : RangeModules, inv : Inverters, T_cell_hot : HotTemps,
     T_amb_cold : ColdTemps]

\* values, coefficients and temperature differences for temp_adjust alone
AdjustInputs ==
    [value_stc : {R(493, 10), R(83, 2), I(0), I(0 - 1)},
     coeff_pct_per_C : {R(0 - 27, 100), R(0 - 35, 100), R(1, 20), I(0), I(0 - 4)},
     delta_T : {I(0), I(0 - 17), I(0 - 35), I(40)}]

InitString ==
    /\ pc = "call"
    /\ out = NoValue
    /\ \/ fn = "check_string" /\ inp \in CheckInputs
       \/ fn = "suggest_series_range" /\ inp \in RangeInputs
       \/ fn = "temp_adjust" /\ inp \in AdjustInputs

CheckString ==
    /\ pc = "call"
    /\ fn = "check_string"
    /\ out' = check_string(inp.n_series, inp.n_parallel, inp.mod, inp.inv,
                           inp.T_cell_hot, inp.T_amb_cold)
    /\ pc' = "return"
    /\ UNCHANGED <<fn, inp>>

SuggestSeriesRange ==
    /\ pc = "call"
    /\ fn = "suggest_series_range"
    /\ out' = suggest_series_range(inp.mod, inp.inv, inp.T_cell_hot, inp.T_amb_cold)
    /\ pc' = "return"
    /\ UNCHANGED <<fn, inp>>

TempAdjust ==
    /\ pc = "call"
    /\ fn = "temp_adjust"
    /\ out' = temp_adjust(inp.value_stc, inp.coeff_pct_per_C, inp.delta_T)
    /\ pc' = "return"
    /\ UNCHANGED <<fn, inp>>

NextString == CheckString \/ SuggestSeriesRange \/ TempAdjust

SpecString == InitString /\ [][NextString]_vars

\* what the claims say the string's voltages and currents are
HotVmpString == FMul(I(inp.n_series), inp.mod.vmp)
ColdVocModule ==
    FMul(inp.mod.voc,
         FAdd(I(1), FMul(FDiv(inp.mod.beta_voc_pct_per_C, I(100)),
                         FSub(inp.T_amb_cold, I(25)))))
ColdVocString == FMul(I(inp.n_series), ColdVocModule)

\* C5: check_string reports the five booleans, each decided by its own
\* comparison whatever the other four are, and is_compatible is true exactly
\* when all five are true.
C5_FiveChecksAndConjunction ==
    Returned("check_string") =>
        /\ DOMAIN out.checks =
               {"mppt_min_ok", "mppt_max_ok", "vdc_max_ok", "imax_ok", "iscmax_ok"}
        /\ out.checks.mppt_min_ok = FGe(HotVmpString, inp.inv.mppt_min_v)
        /\ out.checks.mppt_max_ok =
               (FLe(inp.inv.mppt_max_v, I(0))
                    \/ FLe(HotVmpString, inp.inv.mppt_max_v))
        /\ out.checks.vdc_max_ok =
               FLe(ColdVocString, FMin(inp.inv.vdc_max, inp.mod.max_system_v))
        /\ out.checks.imax_ok =
               FLe(FMul(I(inp.n_parallel), inp.mod.imp), inp.inv.imax_mppt)
        /\ out.checks.iscmax_ok =
               FLe(FMul(I(inp.n_parallel), inp.mod.isc), inp.inv.iscmax_mppt)
        /\ out.is_compatible =
               (/\ out.checks.mppt_min_ok
                /\ out.checks.mppt_max_ok
                /\ out.checks.vdc_max_ok
                /\ out.checks.imax_ok
                /\ out.checks.iscmax_ok)

\* a string failing a voltage check and a current check at once, both reported
C5_Witness ==
    /\ Returned("check_string")
    /\ ~out.checks.vdc_max_ok
    /\ ~out.checks.imax_ok
    /\ out.checks.mppt_min_ok
    /\ out.checks.iscmax_ok
    /\ ~out.is_compatible

\* C6: vdc_max_ok is true exactly when n_series times the cold per-module Voc
\* is <= min(inverter.vdc_max, module.max_system_v).
C6_VdcMaxUsesStricterLimit ==
    Returned("check_string") =>
        (out.checks.vdc_max_ok <=>
            /\ FLe(ColdVocString, inp.inv.vdc_max)
            /\ FLe(ColdVocString, inp.mod.max_system_v))

\* a string below the inverter's ceiling and above the module's own rating
C6_Witness ==
    /\ Returned("check_string")
    /\ FLe(ColdVocString, inp.inv.vdc_max)
    /\ FGt(ColdVocString, inp.mod.max_system_v)
    /\ ~out.checks.vdc_max_ok

\* C7: mppt_max_ok is true for every n_series when inverter.mppt_max_v <= 0,
\* and otherwise true exactly when the hot string Vmp is <= mppt_max_v.
C7_MpptMaxUnboundedOrWithin ==
    Returned("check_string") =>
        IF FLe(inp.inv.mppt_max_v, I(0))
        THEN out.checks.mppt_max_ok
        ELSE out.checks.mppt_max_ok <=> FLe(HotVmpString, inp.inv.mppt_max_v)

\* an unbounded window passing a string that a bounded one rejects
C7_Witness ==
    /\ Returned("check_string")
    /\ FLt(inp.inv.mppt_max_v, I(0))
    /\ FGt(HotVmpString, I(100))
    /\ out.checks.mppt_max_ok

\* check_string called with the min_series that suggest_series_range returned
RoundTrip ==
    check_string(out.min_series, 1, inp.mod, inp.inv, inp.T_cell_hot, inp.T_amb_cold)

EnergyInputs ==
    [kwh_month : {I(0), I(60), I(115), I(300)}, days_per_month : {I(28), I(30), I(31)}]

DailyEnergies ==
    {energy_daily_from_monthly_kwh(e.kwh_month, e.days_per_month).value :
        e \in EnergyInputs}

PowerInputs ==
    [E_daily_Wh : DailyEnergies,
     HSP : {I(0 - 1), I(0), I(4), R(11, 2)},
     PR : {I(0 - 1), I(0), R(4, 5), I(1)}]

InitPower ==
    /\ pc = "call"
    /\ out = NoValue
    /\ \/ fn = "energy_daily_from_monthly_kwh" /\ inp \in EnergyInputs
       \/ fn = "required_pv_power_wp" /\ inp \in PowerInputs

EnergyDailyFromMonthlyKwh ==
    /\ pc = "call"
    /\ fn = "energy_daily_from_monthly_kwh"
    /\ out' = energy_daily_from_monthly_kwh(inp.kwh_month, inp.days_per_month).value
    /\ pc' = "return"
    /\ UNCHANGED <<fn, inp>>

RequiredPvPowerWp ==
    /\ pc = "call"
    /\ fn = "required_pv_power_wp"
    /\ out' = required_pv_power_wp(inp.E_daily_Wh, inp.HSP, inp.PR)
    /\ pc' = "return"
    /\ UNCHANGED <<fn, inp>>

NextPower == EnergyDailyFromMonthlyKwh \/ RequiredPvPowerWp

SpecPower == InitPower /\ [][NextPower]_vars

\* a number rounded to a multiple of 1/scale, as scale times the rounded number
Rounded(a, scale) == Floor(FAdd(FMul(a, I(scale)), R(1, 2)))

\* C10: required_pv_power_wp returns E / (HSP * PR) when HSP > 0 and PR > 0,
\* and NaN (never zero) otherwise; 115 kWh over 30 days is 3833.33 Wh a day,
\* which at HSP = 4 and PR = 0.8 needs about 1197.9 Wp.
C10_RequiredPowerOrNaN ==
    /\ Returned("required_pv_power_wp") =>
        /\ IF FGt(inp.HSP, I(0)) /\ FGt(inp.PR, I(0))
           THEN /\ ~IsNaN(out)
                /\ FMul(FMul(out, inp.HSP), inp.PR) = inp.E_daily_Wh
           ELSE IsNaN(out) /\ out # I(0)
        /\ (/\ Rounded(inp.E_daily_Wh, 100) = 383333
            /\ inp.HSP = I(4)
            /\ inp.PR = R(4, 5)) => Rounded(out, 10) = 11979
    /\ Returned("energy_daily_from_monthly_kwh") =>
        (inp.kwh_month = I(115) /\ inp.days_per_month = I(30) =>
            Rounded(out, 100) = 383333)

\* the required power of the 115 kWh, 30 days, HSP 4, PR 0.8 scenario
C10_Witness ==
    /\ Returned("required_pv_power_wp")
    /\ inp.E_daily_Wh = R(11500, 3)
    /\ inp.HSP = I(4)
    /\ inp.PR = R(4, 5)
    /\ out = R(14375, 12)

(***************************************************************************)
(* compute_report                                                          *)
(***************************************************************************)
\* A value of the input mapping: absent or None, the empty text, a number, or
\* the text of a number (what a web form delivers).
PyNone == [k |-> "none", v |-> I(0)]
PyEmpty == [k |-> "empty", v |-> I(0)]
PyNum(r) == [k |-> "num", v |-> r]
PyStr(r) == [k |-> "str", v |-> r]

\* Python truth of a value: None, "" and the number 0 are false; the text "0"
\* is true
Truthy(x) == x.k = "str" \/ (x.k = "num" /\ x.v.n # 0)

\* float(payload.get(key) or default)
float_or(x, default) == IF Truthy(x) THEN x.v ELSE default

\* int(v): a float is truncated towards zero
Trunc(v) == IF v.n >= 0 THEN v.n \div v.d ELSE -((-v.n) \div v.d)

\* int(payload.get(key) or default); int("2.5") raises ValueError
int_or(x, default) == IF Truthy(x) THEN Trunc(x.v) ELSE default
int_raises(x) == x.k = "str" /\ x.v.d # 1

\* the tolerance 1e-9 of lines 217 and 223, as 1 / EpsInv
EpsInv == 1000000000

\* x > 1e-9, for a number x
GtEps(x) == x.n > x.d \div EpsInv

\* max(1e-9, x)
max_eps(x) == IF GtEps(x) THEN x ELSE R(1, EpsInv)

inverter_sizing_from_pdc(Pdc_wp, dc_ac_target) ==
    LET dc_ac_min == R(11, 10)
        dc_ac_max == R(13, 10)
        pdc_kw == FDiv(FMax(Pdc_wp, I(0)), I(1000))
    IN  [pdc_kw |-> pdc_kw,
         ac_target_kw |-> IF FGt(dc_ac_target, I(0))
                          THEN FDiv(pdc_kw, dc_ac_target) ELSE pdc_kw,
         ac_min_kw |-> FDiv(pdc_kw, dc_ac_max),
         ac_max_kw |-> FDiv(pdc_kw, dc_ac_min),
         dc_ac_target |-> dc_ac_target,
         dc_ac_min |-> dc_ac_min,
         dc_ac_max |-> dc_ac_max]

\* the daily energy taken from the monthly figure alone
daily_energy_MonthlyOnly(wh_day, kwh_month, days) ==
    energy_daily_from_monthly_kwh(kwh_month, days)

\* lines 155-160: a positive direct Wh/day value is the daily energy, else the
\* monthly figure is converted
daily_energy(wh_day, kwh_month, days) ==
    IF FGt(wh_day, I(0)) THEN Ok(wh_day)
    ELSE energy_daily_from_monthly_kwh(kwh_month, days)

\* lines 143-186: the fields of the mapping, read with their defaults
resolve_inputs(payload) ==
    LET wh_day == float_or(payload.wh_day, I(0))
        kwh_month == float_or(payload.kwh_month, I(0))
        days == float_or(payload.days, I(30))
        direct == FGt(wh_day, I(0))
        energy == daily_energy(wh_day, kwh_month, days)
    IN  [raised |-> IF energy.raised # "" THEN energy.raised
                    ELSE IF \/ int_raises(payload.n_mppt)
                            \/ int_raises(payload.n_series)
                            \/ int_raises(payload.n_parallel)
                            \/ int_raises(payload.mppts_used)
                         THEN "ValueError" ELSE "",
         kwh_month_calc |-> IF direct THEN FDiv(FMul(wh_day, days), I(1000))
                            ELSE kwh_month,
         E_daily_Wh |-> energy.value,
         days |-> days,
         HSP |-> float_or(payload.HSP, I(4)),
         PR |-> float_or(payload.PR, R(4, 5)),
         T_amb_min |-> float_or(payload.T_amb_min, I(8)),
         T_cell_hot |-> float_or(payload.T_cell_hot, I(65)),
         dc_ac_target |-> float_or(payload.dc_ac_target, R(6, 5)),
         inv_ac_kw_input |-> float_or(payload.inv_ac_kw, I(0)),
         inv |-> [mppt_min_v |-> float_or(payload.mppt_min, I(80)),
                  mppt_max_v |-> float_or(payload.mppt_max, I(550)),
                  vdc_max |-> float_or(payload.vdc_max, I(600)),
                  imax_mppt |-> float_or(payload.imax, I(11)),
                  iscmax_mppt |-> float_or(payload.iscmax, R(69, 5)),
                  n_mppt |-> int_or(payload.n_mppt, 2)],
         mod |-> [wp |-> float_or(payload.wp, I(450)),
                  vmp |-> float_or(payload.vmp, R(83, 2)),
                  imp |-> float_or(payload.imp, R(217, 20)),
                  voc |-> float_or(payload.voc, R(493, 10)),
                  isc |-> float_or(payload.isc, R(58, 5)),
                  max_system_v |-> float_or(payload.max_sys_v, I(1000)),
                  beta_voc_pct_per_C |-> float_or(payload.beta, R(0 - 27, 100))],
         auto_series |-> payload.auto_series,
         n_series |-> int_or(payload.n_series, 3),
         n_parallel |-> int_or(payload.n_parallel, 1),
         mppts_used |-> int_or(payload.mppts_used, 1)]

\* lines 219-221 without the short-circuit current limit
max_parallel_of_ImpOnly(inv, mod) ==
    IMax(0, IF FGt(mod.imp, I(0)) THEN Floor(FDiv(inv.imax_mppt, mod.imp)) ELSE 0)

\* lines 219-221
max_parallel_of(inv, mod) ==
    LET allowed_by_imp == IF FGt(mod.imp, I(0))
                          THEN Floor(FDiv(inv.imax_mppt, mod.imp)) ELSE 0
        allowed_by_isc == IF FGt(mod.isc, I(0))
                          THEN Floor(FDiv(inv.iscmax_mppt, mod.isc)) ELSE 0
    IN  IMax(0, IMin(allowed_by_imp, allowed_by_isc))

\* line 223 with math.floor in place of math.ceil
required_strings_of_Floor(P_req_wp, n_series, wp) ==
    Floor(FDiv(P_req_wp, max_eps(FMul(I(n_series), wp))))

\* "required_strings", line 223, for a P_req_wp that is a number
required_strings_of(P_req_wp, n_series, wp) ==
    Ceil(FDiv(P_req_wp, max_eps(FMul(I(n_series), wp))))

\* line 225 with the difference taken the other way round
strings_extra_of_Surplus(required_strings, total_strings) ==
    IMax(0, total_strings - required_strings)

\* "strings_adicionales_necesarios", line 225
strings_extra_of(required_strings, total_strings) ==
    IMax(0, required_strings - total_strings)

\* lines 216-243: the shortfall plan; math.ceil(nan) raises ValueError
shortfall_plan(P_req_wp, n_series, mod, inv, total_strings, prod_day, need_kwh_day, HSP, PR) ==
    IF ~GtEps(FSub(need_kwh_day, prod_day)) THEN [raised |-> "", present |-> FALSE]
    ELSE IF IsNaN(P_req_wp) THEN [raised |-> "ValueError", present |-> FALSE]
    ELSE
    LET deficit_kwh_day == FSub(need_kwh_day, prod_day)
        max_parallel_per_mppt == max_parallel_of(inv, mod)
        required_strings == required_strings_of(P_req_wp, n_series, mod.wp)
        plan == plan_distribution(required_strings, inv.n_mppt, max_parallel_per_mppt)
        total_wp_target == FMul(FMul(I(n_series), mod.wp), I(Sum(plan.dist)))
    IN  [raised |-> "",
         present |-> TRUE,
         deficit_kwh_day |-> deficit_kwh_day,
         deficit_kwh_month |-> FMul(deficit_kwh_day, I(30)),
         strings_req |-> required_strings,
         strings_actual |-> total_strings,
         strings_extra_needed |-> strings_extra_of(required_strings, total_strings),
         max_parallel_per_mppt |-> max_parallel_per_mppt,
         capacity_total_strings |-> inv.n_mppt * max_parallel_per_mppt,
         target_dist |-> plan.dist,
         leftover |-> plan.leftover,
         prod_day_target |-> estimate_production_kwh_day(total_wp_target, HSP, PR),
         total_wp_target |-> total_wp_target]

\* line 206: the ratio, or None without an inverter rating
ratio_of(total_wp, inv_ac_kw_input) ==
    IF FGt(inv_ac_kw_input, I(0))
    THEN PyNum(FDiv(FDiv(total_wp, I(1000)), inv_ac_kw_input)) ELSE PyNone

\* lines 207-214
ratio_status_of(total_wp, inv_ac_kw_input) ==
    IF ~FGt(inv_ac_kw_input, I(0)) THEN "None"
    ELSE LET ratio == FDiv(FDiv(total_wp, I(1000)), inv_ac_kw_input)
         IN  IF FLe(R(11, 10), ratio) /\ FLe(ratio, R(13, 10)) THEN "OK"
             ELSE IF FLt(ratio, R(11, 10)) THEN "Bajo (posible subaprovechamiento)"
             ELSE "Alto (posible clipping)"

\* coverage that is 0 without a daily target
coverage_pct_of_ZeroWithoutTarget(prod_day, need_kwh_day) ==
    IF FGt(need_kwh_day, I(0))
    THEN FMul(FDiv(prod_day, need_kwh_day), I(100)) ELSE I(0)

\* line 201
coverage_pct_of(prod_day, need_kwh_day) ==
    IF FGt(need_kwh_day, I(0))
    THEN FMul(FDiv(prod_day, need_kwh_day), I(100)) ELSE I(100)

\* lines 188-281, from the resolved inputs on
report_of(r) ==
    LET P_req_wp == required_pv_power_wp(r.E_daily_Wh, r.HSP, r.PR)
        rng == suggest_series_range(r.mod, r.inv, r.T_cell_hot, r.T_amb_min)
        n_series == IF r.auto_series THEN rng.min_series ELSE r.n_series
        res_mppt == check_string(n_series, r.n_parallel, r.mod, r.inv,
                                 r.T_cell_hot, r.T_amb_min)
        total_strings == r.n_parallel * r.mppts_used
        total_wp == FMul(FMul(I(n_series), r.mod.wp), I(total_strings))
        prod_day == estimate_production_kwh_day(total_wp, r.HSP, r.PR)
        need_kwh_day == FDiv(r.E_daily_Wh, I(1000))
        cobertura_pct == coverage_pct_of(prod_day, need_kwh_day)
        recos == shortfall_plan(P_req_wp, n_series, r.mod, r.inv, total_strings,
                                prod_day, need_kwh_day, r.HSP, r.PR)
    IN  IF recos.raised # "" THEN [raised |-> recos.raised]
        ELSE [raised |-> "",
              inputs |-> [kwh_month |-> r.kwh_month_calc,
                          wh_day |-> r.E_daily_Wh,
                          days |-> r.days,
                          HSP |-> r.HSP,
                          PR |-> r.PR,
                          T_amb_min |-> r.T_amb_min,
                          T_cell_hot |-> r.T_cell_hot,
                          auto_series |-> r.auto_series,
                          n_series |-> n_series,
                          n_parallel |-> r.n_parallel,
                          mppts_used |-> r.mppts_used,
                          inverter |-> r.inv,
                          module |-> r.mod,
                          dc_ac_target |-> r.dc_ac_target,
                          inv_ac_kw_input |-> r.inv_ac_kw_input],
              ranges |-> rng,
              string_check |-> res_mppt,
              P_req_wp |-> P_req_wp,
              total |-> [strings |-> total_strings,
                         wp |-> total_wp,
                         prod_day |-> prod_day,
                         prod_month |-> FMul(prod_day, I(30)),
                         coverage_pct |-> cobertura_pct],
              inv_sizing |-> [required |-> inverter_sizing_from_pdc(P_req_wp, r.dc_ac_target),
                              installed |-> inverter_sizing_from_pdc(total_wp, r.dc_ac_target),
                              ratio_installed_vs_inv |-> ratio_of(total_wp, r.inv_ac_kw_input),
                              ratio_status |-> ratio_status_of(total_wp, r.inv_ac_kw_input)],
              recos |-> recos]

compute_report(payload) ==
    LET r == resolve_inputs(payload)
    IN  IF r.raised # "" THEN [raised |-> r.raised] ELSE report_of(r)

(***************************************************************************)
(* Calls of compute_report                                                 *)
(***************************************************************************)
\* the empty mapping: every field absent
EmptyPayload ==
    [kwh_month |-> PyNone, wh_day |-> PyNone, days |-> PyNone, HSP |-> PyNone,
     PR |-> PyNone, T_amb_min |-> PyNone, T_cell_hot |-> PyNone,
     dc_ac_target |-> PyNone, inv_ac_kw |-> PyNone,
     mppt_min |-> PyNone, mppt_max |-> PyNone, vdc_max |-> PyNone,
     imax |-> PyNone, iscmax |-> PyNone, n_mppt |-> PyNone,
     wp |-> PyNone, vmp |-> PyNone, imp |-> PyNone, voc |-> PyNone,
     isc |-> PyNone, max_sys_v |-> PyNone, beta |-> PyNone,
     auto_series |-> FALSE, n_series |-> PyNone, n_parallel |-> PyNone,
     mppts_used |-> PyNone]

\* mappings that set the energy target, the irradiance factors, the
\* inverter's current limits and channel count, and the array topology
ShortfallPayloads ==
    {[EmptyPayload EXCEPT !.kwh_month = kwh, !.HSP = hsp, !.PR = pr, !.imax = imax,
                          !.iscmax = iscmax, !.n_mppt = n_mppt,
                          !.n_series = n_series, !.n_parallel = n_parallel,
                          !.mppts_used = mppts_used, !.auto_series = auto] :
        kwh \in {PyNone, PyNum(I(115)), PyNum(I(900))},
        hsp \in {PyNone, PyNum(I(0)), PyStr(I(0)), PyNum(I(0 - 1))},
        pr \in {PyNone, PyStr(I(0))},
        imax \in {PyNone, PyNum(I(5)), PyNum(I(25))},
        iscmax \in {PyNone, PyNum(I(30))},
        n_mppt \in {PyNone} \cup {PyNum(I(n)) : n \in 1..MaxMppt},
        n_series \in {PyNone, PyNum(I(1))},
        n_parallel \in {PyNone, PyNum(I(2))},
        mppts_used \in {PyNone, PyNum(I(2))},
        auto \in BOOLEAN}

\* mappings that set the energy target both ways, the days of the month and
\* the irradiance and temperature assumptions, as numbers, texts or nothing
EnergyPayloads ==
    {[EmptyPayload EXCEPT !.wh_day = wh, !.kwh_month = kwh, !.days = days,
                          !.HSP = hsp, !.PR = pr, !.T_amb_min = tmin,
                          !.T_cell_hot = thot] :
        wh \in {PyNone, PyEmpty, PyNum(I(0)), PyStr(I(0)), PyNum(I(4320)),
                PyNum(I(3000)), PyNum(I(0 - 5))},
        kwh \in {PyNone, PyNum(I(115)), PyStr(I(0))},
        days \in {PyNone, PyNum(I(28)), PyNum(I(0)), PyStr(I(0))},
        hsp \in {PyNone, PyEmpty, PyNum(I(5))},
        pr \in {PyNone, PyNum(R(3, 4))},
        tmin \in {PyNone, PyEmpty, PyNum(I(0)), PyStr(I(0)), PyNum(I(0 - 10))},
        thot \in {PyNone, PyNum(I(45))}}

\* mappings that set the array topology, in and out of the advisory range and
\* of the inverter's channel count, and the voltage limits, without an energy
\* target and with the cold ambient at the STC temperature
SeriesPayloads ==
    {[EmptyPayload EXCEPT !.T_amb_min = PyNum(I(25)), !.n_series = n_series,
                          !.mppt_min = mppt_min, !.mppt_max = mppt_max,
                          !.voc = voc, !.max_sys_v = max_sys_v,
                          !.n_parallel = n_parallel, !.mppts_used = mppts_used,
                          !.auto_series = auto] :
        n_series \in {PyNone, PyStr(I(0)), PyNum(I(0 - 1)), PyNum(I(1)),
                      PyNum(I(2)), PyNum(I(12)), PyNum(I(13)), PyNum(I(14)),
                      PyNum(I(1000))},
        mppt_min \in {PyNone, PyStr(I(0))},
        mppt_max \in {PyNone, PyStr(I(0)), PyNum(I(100))},
        voc \in {PyNone, PyNum(R(1, 2))},
        max_sys_v \in {PyNone, PyNum(I(100))},
        n_parallel \in {PyNone, PyStr(I(0))},
        mppts_used \in {PyNone, PyNum(I(0 - 1)), PyNum(I(3))},
        auto \in BOOLEAN}

\* the numeric fields that a mapping may give as the number 0 or the text "0"
ZeroKeys ==
    {"days", "HSP", "PR", "vmp", "imp", "voc", "isc", "wp", "n_series",
     "inv_ac_kw", "dc_ac_target"}

\* mappings with one zero-valued field, with and without an energy target.
\* A target beside a wp or n_series of "0" is left out: its required_strings
\* is P_req_wp / 1e-9, beyond the integer range of this model.
ZeroPayloads ==
    {[[EmptyPayload EXCEPT ![key] = zero] EXCEPT !.kwh_month = kwh] :
        key \in ZeroKeys, zero \in {PyNum(I(0)), PyStr(I(0))},
        kwh \in {PyNone, PyNum(I(115))}}
    \ {[[EmptyPayload EXCEPT ![key] = PyStr(I(0))]
            EXCEPT !.kwh_month = PyNum(I(115))] : key \in {"wp", "n_series"}}

\* mappings with an energy target that set the inverter's current limits, the
\* module's currents and the inverter's voltage ceiling
CurrentPayloads ==
    {[EmptyPayload EXCEPT !.kwh_month = kwh, !.imax = imax, !.iscmax = iscmax,
                          !.imp = imp, !.isc = isc, !.vdc_max = vdc_max,
                          !.n_series = n_series, !.auto_series = auto] :
        kwh \in {PyNum(I(115)), PyNum(I(900))},
        imax \in {PyNone, PyNum(I(0 - 5)), PyNum(I(40))},
        iscmax \in {PyNone, PyNum(I(0 - 3)), PyNum(I(30))},
        imp \in {PyNone, PyStr(I(0)), PyNum(I(5))},
        isc \in {PyNone, PyStr(I(0)), PyNum(R(13, 2))},
        vdc_max \in {PyNone, PyNum(I(150))},
        n_series \in {PyNone, PyNum(I(1))},
        auto \in BOOLEAN}

ReportInputs ==
    ShortfallPayloads \cup EnergyPayloads \cup SeriesPayloads \cup ZeroPayloads
        \cup CurrentPayloads

InitReport ==
    /\ fn = "compute_report"
    /\ pc = "call"
    /\ inp \in ReportInputs
    /\ out = NoValue

ComputeReport ==
    /\ pc = "call"
    /\ fn = "compute_report"
    /\ out' = compute_report(inp)
    /\ pc' = "return"
    /\ UNCHANGED <<fn, inp>>

NextReport == ComputeReport

SpecReport == InitReport /\ [][NextReport]_vars

\* a report was returned, and it holds a shortfall plan
HasPlan == Returned("compute_report") /\ out.raised = "" /\ out.recos.present

\* C3 (as claimed): when max_parallel_per_mppt * n_mppt < required_strings the
\* plan reports leftover = required_strings - capacity_total_strings and has
\* exactly n_mppt channels.
C3_LeftoverIsDemandMinusCapacity ==
    HasPlan /\ out.recos.capacity_total_strings < out.recos.strings_req =>
        /\ out.recos.capacity_total_strings =
               out.recos.max_parallel_per_mppt * out.inputs.inverter.n_mppt
        /\ out.recos.leftover =
               out.recos.strings_req - out.recos.capacity_total_strings
        /\ Len(out.recos.target_dist) = out.inputs.inverter.n_mppt

\* C4 (as claimed): a shortfall plan with max_parallel_per_mppt = 0 reports
\* zero capacity and distributes nothing: capacity_total_strings is 0, every
\* entry of target_dist is 0 and total_wp_target is 0.
C4_ZeroCapDistributesNothing ==
    HasPlan /\ out.recos.max_parallel_per_mppt = 0 =>
        /\ out.recos.capacity_total_strings = 0
        /\ \A i \in 1..Len(out.recos.target_dist) : out.recos.target_dist[i] = 0
        /\ out.recos.total_wp_target = I(0)

\* the HSP and PR that compute_report uses for a mapping
UsedHSP == float_or(inp.HSP, I(4))
UsedPR == float_or(inp.PR, R(4, 5))

\* C9 (as claimed): for a mapping whose HSP or PR is <= 0 compute_report does
\* not raise, and the report's P_req_wp is NaN.
C9_NonPositiveFactorsGiveNaN ==
    Returned("compute_report") /\ (FLe(UsedHSP, I(0)) \/ FLe(UsedPR, I(0))) =>
        out.raised = "" /\ IsNaN(out.P_req_wp)

\* the energy fields of a mapping, as compute_report reads them
WhDay == float_or(inp.wh_day, I(0))
KwhMonth == float_or(inp.kwh_month, I(0))
Days == float_or(inp.days, I(30))

\* the daily energy converted from the monthly figure of a mapping
ConvertedWhDay == FDiv(FMul(KwhMonth, I(1000)), Days)

\* a field of the mapping is supplied: neither absent, None nor empty
Supplied(x) == x.k \in {"num", "str"}

NeedKwhDay == FDiv(out.inputs.wh_day, I(1000))

\* C12: in every report coverage_pct is prod_day / need_kwh_day * 100 for a
\* positive daily target, is exactly 100 when prod_day equals the target, and
\* is 100 for a daily target of zero.
C12_CoveragePct ==
    Returned("compute_report") /\ out.raised = "" =>
        /\ FGt(NeedKwhDay, I(0)) =>
               out.total.coverage_pct =
                   FMul(FDiv(out.total.prod_day, NeedKwhDay), I(100))
        /\ out.total.prod_day = NeedKwhDay => out.total.coverage_pct = I(100)
        /\ NeedKwhDay = I(0) => out.total.coverage_pct = I(100)

\* a report whose production meets a positive daily target exactly
C12_Witness ==
    /\ Returned("compute_report") /\ out.raised = ""
    /\ FGt(NeedKwhDay, I(0))
    /\ out.total.prod_day = NeedKwhDay
    /\ out.total.coverage_pct = I(100)

\* what compute_report evaluates for a mapping whose fields it could read:
\* the series count, the estimated daily production and the daily target
EvaluatedSeries ==
    LET r == resolve_inputs(inp)
    IN  IF r.auto_series
        THEN suggest_series_range(r.mod, r.inv, r.T_cell_hot, r.T_amb_min).min_series
        ELSE r.n_series
EstimatedProdDay ==
    LET r == resolve_inputs(inp)
    IN  estimate_production_kwh_day(
            FMul(FMul(I(EvaluatedSeries), r.mod.wp), I(r.n_parallel * r.mppts_used)),
            r.HSP, r.PR)
TargetKwhDay == FDiv(resolve_inputs(inp).E_daily_Wh, I(1000))

\* the estimated production is below the target by more than 1e-9
Shortfall == GtEps(FSub(TargetKwhDay, EstimatedProdDay))

\* C13 (as claimed): compute_report produces a non-empty shortfall plan
\* exactly when the estimated daily production is below the daily target by
\* more than the 1e-9 tolerance, and an empty one otherwise.
C13_PlanExactlyOnShortfall ==
    Returned("compute_report") /\ resolve_inputs(inp).raised = "" =>
        /\ out.raised = ""
        /\ out.recos.present <=> Shortfall

\* C14 (as claimed): every configuration that a report echoes has
\* n_series >= 1, n_parallel >= 1 and 1 <= mppts_used <= inverter.n_mppt.
C14_TopologyWithinBounds ==
    Returned("compute_report") /\ out.raised = "" =>
        /\ out.inputs.n_series >= 1
        /\ out.inputs.n_parallel >= 1
        /\ out.inputs.mppts_used >= 1
        /\ out.inputs.mppts_used <= out.inputs.inverter.n_mppt

\* a field of the mapping is the number 0 or the text "0"
ZeroValued(x) == Supplied(x) /\ x.v = I(0)
HasZeroField == \E key \in ZeroKeys : ZeroValued(inp[key])

\* C15 (as claimed): for a mapping with a zero-valued numeric field
\* compute_report returns a report and propagates no fault.
C15_ZeroFieldsNeverRaise ==
    Returned("compute_report") /\ HasZeroField => out.raised = ""

\* the three voltage checks of a report all pass
VoltageChecksPass ==
    /\ out.string_check.checks.mppt_min_ok
    /\ out.string_check.checks.mppt_max_ok
    /\ out.string_check.checks.vdc_max_ok

\* the evaluated series count of a report lies in its advisory range
InAdvisoryRange ==
    /\ out.ranges.min_series <= out.inputs.n_series
    /\ out.inputs.n_series <= out.ranges.max_series

\* a report for an explicit n_series, with positive hot Vmp and cold Voc
ExplicitSeriesReport ==
    /\ Returned("compute_report") /\ out.raised = ""
    /\ ~inp.auto_series
    /\ FGt(out.ranges.vmp_hot_mod, I(0))
    /\ FGt(out.ranges.voc_cold_mod, I(0))

SuppliedOr(x, default) == IF Supplied(x) THEN x.v ELSE default

\* C18 (as claimed): HSP, PR, T_amb_min and T_cell_hot take their defaults
\* (4.0, 0.8, 8.0, 65.0) exactly when the field is absent, None or empty; a
\* supplied value, a numeric 0 included, is echoed unchanged in the report.
C18_DefaultsOnlyWhenMissing ==
    Returned("compute_report") /\ out.raised = "" =>
        /\ out.inputs.HSP = SuppliedOr(inp.HSP, I(4))
        /\ out.inputs.PR = SuppliedOr(inp.PR, R(4, 5))
        /\ out.inputs.T_amb_min = SuppliedOr(inp.T_amb_min, I(8))
        /\ out.inputs.T_cell_hot = SuppliedOr(inp.T_cell_hot, I(65))

(***************************************************************************)
(* The command-line variant, pv_calc_cli.py                                *)
(***************************************************************************)
PRESET_INVERTERS ==
    [aeg4200 |-> [mppt_min_v |-> I(80), mppt_max_v |-> I(550), vdc_max |-> I(600),
                  imax_mppt |-> I(11), iscmax_mppt |-> R(69, 5), n_mppt |-> 2]]

PRESET_MODULES ==
    [era450 |-> [wp |-> I(450), vmp |-> R(83, 2), imp |-> R(217, 20),
                 voc |-> R(493, 10), isc |-> R(58, 5),
                 gamma_pmax_pct_per_C |-> R(0 - 352, 1000),
                 beta_voc_pct_per_C |-> R(0 - 271, 1000),
                 alpha_isc_pct_per_C |-> R(49, 1000)]]

\* this variant derates Vmp with gamma at the hot cell temperature, Voc with
\* beta and Isc with alpha at the cold ambient temperature
cli_module_at_temps(mod, T_cell_hot, T_amb_cold) ==
    LET delta_hot == FSub(T_cell_hot, I(25))
        delta_cold == FSub(T_amb_cold, I(25))
    IN  [vmp_hot |-> temp_adjust(mod.vmp, mod.gamma_pmax_pct_per_C, delta_hot),
         voc_cold |-> temp_adjust(mod.voc, mod.beta_voc_pct_per_C, delta_cold),
         isc_cold |-> temp_adjust(mod.isc, mod.alpha_isc_pct_per_C, delta_cold)]

cli_check_string(n_series, n_parallel, mod, inv, T_cell_hot, T_amb_cold) ==
    LET temps == cli_module_at_temps(mod, T_cell_hot, T_amb_cold)
        vmp_hot_str == FMul(I(n_series), temps.vmp_hot)
        voc_cold_str == FMul(I(n_series), temps.voc_cold)
        imp_str == mod.imp
        isc_cold_str == FMul(I(n_parallel), temps.isc_cold)
        imp_total == FMul(I(n_parallel), imp_str)
        checks == [mppt_min_ok |-> FGe(vmp_hot_str, inv.mppt_min_v),
                   mppt_max_ok |-> IF FGt(inv.mppt_max_v, I(0))
                                   THEN FLe(vmp_hot_str, inv.mppt_max_v) ELSE TRUE,
                   vdc_max_ok |-> FLe(voc_cold_str, inv.vdc_max),
                   imax_ok |-> FLe(imp_total, inv.imax_mppt),
                   iscmax_ok |-> FLe(isc_cold_str, inv.iscmax_mppt)]
    IN  [n_series |-> n_series,
         n_parallel |-> n_parallel,
         vmp_hot_string_V |-> vmp_hot_str,
         voc_cold_string_V |-> voc_cold_str,
         imp_string_A |-> imp_str,
         isc_cold_total_A |-> isc_cold_str,
         imp_total_A |-> imp_total,
         checks |-> checks,
         is_compatible |-> \A c \in DOMAIN checks : checks[c],
         temps |-> temps]

\* the default of the max_series parameter
DefaultMaxSeries == 20

\* "for n in range(1, max_series + 1)": the first n from n on that lifts the
\* hot string Vmp to mppt_min_v, or None
RECURSIVE first_series(_, _, _, _)
first_series(n, last, vmp_hot, mppt_min_v) ==
    IF n > last THEN PyNone
    ELSE IF FGe(FMul(I(n), vmp_hot), mppt_min_v) THEN PyNum(I(n))
    ELSE first_series(n + 1, last, vmp_hot, mppt_min_v)

\* the search with range(1, max_series): the last candidate is never tried
suggest_min_series_for_mppt_SkipLast(mod, inv, T_cell_hot, max_series) ==
    first_series(1, max_series - 1,
                 cli_module_at_temps(mod, T_cell_hot, I(25)).vmp_hot,
                 inv.mppt_min_v)

suggest_min_series_for_mppt(mod, inv, T_cell_hot, max_series) ==
    first_series(1, max_series,
                 cli_module_at_temps(mod, T_cell_hot, I(25)).vmp_hot,
                 inv.mppt_min_v)

resolve_inverter(args) ==
    IF args.preset_inverter # "" THEN PRESET_INVERTERS[args.preset_inverter]
    ELSE [mppt_min_v |-> float_or(args.inv_mppt_min, I(80)),
          mppt_max_v |-> float_or(args.inv_mppt_max, I(550)),
          vdc_max |-> float_or(args.inv_vdc_max, I(600)),
          imax_mppt |-> float_or(args.inv_imax, I(11)),
          iscmax_mppt |-> float_or(args.inv_iscmax, R(69, 5)),
          n_mppt |-> int_or(args.inv_n_mppt, 1)]

\* the vital fields of a module, in the order resolve_module reads them
VitalFields == <<"mod_wp", "mod_vmp", "mod_imp", "mod_voc", "mod_isc">>

\* field.replace("mod_", "")
ShortName(field) == SubSeq(field, 5, Len(field))

\* lines 212-215 with "if not getattr(args, field)": a field of 0 counts as
\* absent
missing_of_Falsy(args) ==
    LET absent == SelectSeq(VitalFields, LAMBDA field : ~Truthy(args[field]))
    IN  [i \in 1..Len(absent) |-> ShortName(absent[i])]

\* "missing", lines 212-215: the short names of the vital fields that are None
missing_of(args) ==
    LET absent == SelectSeq(VitalFields, LAMBDA field : args[field] = PyNone)
    IN  [i \in 1..Len(absent) |-> ShortName(absent[i])]

\* sys.exit(message): the fixed text of the message and the fields it names
NoExit == [message |-> "", fields |-> <<>>]
Exit(message, fields) == [message |-> message, fields |-> fields]

\* "x if x is not None else default"
value_or(x, default) == IF x = PyNone THEN default ELSE x.v

resolve_module(args) ==
    IF args.preset_module # ""
    THEN [exit |-> NoExit, mod |-> PRESET_MODULES[args.preset_module]]
    ELSE LET missing == missing_of(args)
         IN  IF missing # <<>>
             THEN [exit |-> Exit("Faltan parámetros de módulo (usa --preset-module o define: )",
                                 missing),
                   mod |-> NoValue]
             ELSE [exit |-> NoExit,
                   mod |-> [wp |-> args.mod_wp.v,
                            vmp |-> args.mod_vmp.v,
                            imp |-> args.mod_imp.v,
                            voc |-> args.mod_voc.v,
                            isc |-> args.mod_isc.v,
                            gamma_pmax_pct_per_C |-> value_or(args.mod_gamma, R(0 - 35, 100)),
                            beta_voc_pct_per_C |-> value_or(args.mod_beta, R(0 - 27, 100)),
                            alpha_isc_pct_per_C |-> value_or(args.mod_alpha, R(5, 100))]]

(***************************************************************************)
(* Runs of main of pv_calc_cli.py                                          *)
(***************************************************************************)
\* the parsed arguments when none is given: the defaults of build_parser
DefaultArgs ==
    [kwh_month |-> PyNum(I(115)), wh_day |-> PyNone, hsp |-> PyNum(I(4)),
     pr |-> PyNum(R(4, 5)), t_amb_min |-> PyNum(I(8)), t_cell_hot |-> PyNum(I(65)),
     mppts_used |-> PyNum(I(1)),
     preset_inverter |-> "", inv_mppt_min |-> PyNone, inv_mppt_max |-> PyNone,
     inv_vdc_max |-> PyNone, inv_imax |-> PyNone, inv_iscmax |-> PyNone,
     inv_n_mppt |-> PyNone,
     preset_module |-> "", mod_wp |-> PyNone, mod_vmp |-> PyNone,
     mod_imp |-> PyNone, mod_voc |-> PyNone, mod_isc |-> PyNone,
     mod_gamma |-> PyNone, mod_beta |-> PyNone, mod_alpha |-> PyNone,
     series |-> PyNone, parallel |-> PyNum(I(1)), auto_series |-> FALSE]

\* arguments that describe a module by hand, each vital field and each
\* thermal coefficient given or not
ModuleArgs ==
    {[DefaultArgs EXCEPT !.preset_inverter = "aeg4200", !.auto_series = TRUE,
                         !.mod_wp = wp, !.mod_vmp = vmp, !.mod_imp = imp,
                         !.mod_voc = voc, !.mod_isc = isc, !.mod_gamma = gamma,
                         !.mod_beta = beta, !.mod_alpha = alpha] :
        wp \in {PyNone, PyNum(I(450))},
        vmp \in {PyNone, PyNum(R(83, 2)), PyNum(I(0))},
        imp \in {PyNone, PyNum(R(217, 20))},
        voc \in {PyNone, PyNum(R(493, 10))},
        isc \in {PyNone, PyNum(R(58, 5))},
        gamma \in {PyNone, PyNum(R(0 - 2, 5))},
        beta \in {PyNone, PyNum(R(0 - 3, 10))},
        alpha \in {PyNone, PyNum(I(0))}}

\* arguments that choose the series count, by hand or automatically, for a
\* preset or hand-described module and inverter
SeriesArgs ==
    {[DefaultArgs EXCEPT !.preset_module = preset_module, !.mod_wp = PyNum(I(450)),
                         !.mod_vmp = PyNum(I(30)), !.mod_imp = PyNum(I(10)),
                         !.mod_voc = PyNum(I(40)), !.mod_isc = PyNum(I(11)),
                         !.preset_inverter = preset_inverter,
                         !.inv_mppt_min = mppt_min, !.auto_series = auto,
                         !.series = series, !.t_cell_hot = t_cell_hot,
                         !.wh_day = wh_day, !.parallel = parallel,
                         !.mppts_used = mppts_used] :
        preset_module \in {"era450", ""},
        preset_inverter \in {"aeg4200", ""},
        mppt_min \in {PyNone, PyNum(I(0)), PyNum(I(700)), PyNum(I(1000))},
        auto \in BOOLEAN,
        series \in {PyNone, PyNum(I(3))},
        t_cell_hot \in {PyNum(I(65)), PyNum(I(25))},
        wh_day \in {PyNone, PyNum(I(0)), PyNum(I(3000))},
        parallel \in {PyNum(I(1)), PyNum(I(0))},
        mppts_used \in {PyNum(I(1)), PyNum(I(0))}}

MainInputs == ModuleArgs \cup SeriesArgs

\* the locals of main before its first statement
MainStart ==
    [exit |-> NoExit, inv |-> NoValue, mod |-> NoValue, E_daily_Wh |-> NoValue,
     P_req_wp |-> NoValue, n_series |-> PyNone, res |-> NoValue,
     printed |-> NoValue]

InitMain ==
    /\ fn = "main"
    /\ pc = "call"
    /\ inp \in MainInputs
    /\ out = MainStart

\* lines 235-236: the inverter and the module; resolve_module may exit
ResolveArgs ==
    /\ pc = "call"
    /\ fn = "main"
    /\ LET m == resolve_module(inp)
       IN  /\ out' = [out EXCEPT !.inv = resolve_inverter(inp), !.mod = m.mod,
                                 !.exit = m.exit]
           /\ pc' = IF m.exit # NoExit THEN "exit" ELSE "series"
    /\ UNCHANGED <<fn, inp>>

\* lines 239-253: the daily energy, the required power and the series count;
\* main exits when the automatic search finds none or no count is given
DetermineSeries ==
    /\ pc = "series"
    /\ fn = "main"
    /\ LET E_daily_Wh == IF inp.wh_day # PyNone THEN inp.wh_day.v
                         ELSE energy_daily_from_monthly_kwh(inp.kwh_month.v, I(30)).value
           P_req_wp == required_pv_power_wp(E_daily_Wh, inp.hsp.v, inp.pr.v)
           found == suggest_min_series_for_mppt(out.mod, out.inv, inp.t_cell_hot.v,
                                                DefaultMaxSeries)
           n_series == IF inp.auto_series THEN found ELSE inp.series
           exit == IF n_series # PyNone THEN NoExit
                   ELSE IF inp.auto_series
                   THEN Exit("No se encontró # en serie que alcance Vmppt_min con los límites dados.",
                             <<>>)
                   ELSE Exit("Debes indicar --series N o usar --auto-series", <<>>)
       IN  /\ out' = [out EXCEPT !.E_daily_Wh = E_daily_Wh, !.P_req_wp = P_req_wp,
                                 !.n_series = n_series, !.exit = exit]
           /\ pc' = IF exit # NoExit THEN "exit" ELSE "check"
    /\ UNCHANGED <<fn, inp>>

\* lines 255-293: the compatibility check, the production estimate and the
\* printed report
CheckAndPrint ==
    /\ pc = "check"
    /\ fn = "main"
    /\ LET n_series == Trunc(out.n_series.v)
           n_parallel == IMax(1, Trunc(inp.parallel.v))
           mppts_used == IMax(1, Trunc(inp.mppts_used.v))
           res == cli_check_string(n_series, n_parallel, out.mod, out.inv,
                                   inp.t_cell_hot.v, inp.t_amb_min.v)
           total_strings == n_parallel * mppts_used
           total_wp == FMul(FMul(I(n_series), out.mod.wp), I(total_strings))
           prod_day == estimate_production_kwh_day(total_wp, inp.hsp.v, inp.pr.v)
       IN  out' = [out EXCEPT !.res = res,
                              !.printed = [E_daily_Wh |-> out.E_daily_Wh,
                                           P_req_wp |-> out.P_req_wp,
                                           n_series |-> n_series,
                                           n_parallel |-> n_parallel,
                                           mppts_used |-> mppts_used,
                                           total_strings |-> total_strings,
                                           checks |-> res.checks,
                                           total_wp |-> total_wp,
                                           prod_day |-> prod_day]]
    /\ pc' = "return"
    /\ UNCHANGED <<fn, inp>>

NextMain == ResolveArgs \/ DetermineSeries \/ CheckAndPrint

SpecMain == InitMain /\ [][NextMain]_vars

\* the vital module arguments that a run of main was given without
AbsentVital == {field \in DOMAIN inp : /\ \E i \in 1..Len(VitalFields) : VitalFields[i] = field
                                        /\ inp[field] = PyNone}

\* the name that the message gives to a vital argument
MessageName ==
    [mod_wp |-> "wp", mod_vmp |-> "vmp", mod_imp |-> "imp", mod_voc |-> "voc",
     mod_isc |-> "isc"]

\* main has exited without a compatibility check or a report
StoppedBeforeCheck == pc = "exit" /\ out.res = NoValue /\ out.printed = NoValue

\* C19: without a module preset, when any of wp, vmp, imp, voc, isc is absent
\* resolve_module stops the run with a message naming exactly the absent
\* fields, and no module, check or report is produced; when all five are
\* present the module is built from them, and only an absent thermal
\* coefficient takes its default.
C19_ResolveModule ==
    fn = "main" /\ pc # "call" /\ inp.preset_module = "" =>
        IF AbsentVital # {}
        THEN /\ StoppedBeforeCheck
             /\ out.mod = NoValue
             /\ out.exit.message # ""
             /\ Len(out.exit.fields) = Cardinality(AbsentVital)
             /\ {out.exit.fields[i] : i \in 1..Len(out.exit.fields)} =
                    {MessageName[field] : field \in AbsentVital}
        ELSE /\ out.mod.wp = inp.mod_wp.v
             /\ out.mod.vmp = inp.mod_vmp.v
             /\ out.mod.imp = inp.mod_imp.v
             /\ out.mod.voc = inp.mod_voc.v
             /\ out.mod.isc = inp.mod_isc.v
             /\ out.mod.gamma_pmax_pct_per_C =
                    IF inp.mod_gamma = PyNone THEN R(0 - 35, 100) ELSE inp.mod_gamma.v
             /\ out.mod.beta_voc_pct_per_C =
                    IF inp.mod_beta = PyNone THEN R(0 - 27, 100) ELSE inp.mod_beta.v
             /\ out.mod.alpha_isc_pct_per_C =
                    IF inp.mod_alpha = PyNone THEN R(5, 100) ELSE inp.mod_alpha.v

\* a run stopped by resolve_module for two absent fields, a given thermal
\* coefficient notwithstanding
C19_Witness ==
    /\ fn = "main" /\ pc = "exit" /\ inp.preset_module = ""
    /\ AbsentVital = {"mod_vmp", "mod_isc"}
    /\ inp.mod_gamma # PyNone
    /\ out.exit.fields = <<"vmp", "isc">>

\* the hot Vmp per module of the resolved module of a run
CliHotVmp ==
    FMul(out.mod.vmp,
         FAdd(I(1), FMul(FDiv(out.mod.gamma_pmax_pct_per_C, I(100)),
                         FSub(inp.t_cell_hot.v, I(25)))))

\* the series counts of 1..20 whose hot string Vmp reaches mppt_min_v
QualifyingSeries ==
    {n \in 1..DefaultMaxSeries : FGe(FMul(I(n), CliHotVmp), out.inv.mppt_min_v)}

\* C20: with auto-series, the series count of main is the smallest n of 1..20
\* with n * vmp_hot >= inverter.mppt_min_v; when no n of that range
\* qualifies the search returns nothing and main stops before any
\* compatibility check or report.
C20_AutoSeriesSmallestOrStop ==
    fn = "main" /\ inp.auto_series /\ pc \in {"check", "return", "exit"}
        /\ out.mod # NoValue =>
        IF QualifyingSeries # {}
        THEN /\ pc # "exit"
             /\ out.n_series.v.n \in QualifyingSeries
             /\ \A n \in QualifyingSeries : out.n_series.v.n <= n
        ELSE /\ out.n_series = PyNone
             /\ StoppedBeforeCheck
             /\ out.exit.message # ""

\* a run with auto-series that stopped because no count of 1..20 qualifies
C20_Witness ==
    /\ fn = "main" /\ inp.auto_series /\ pc = "exit"
    /\ out.mod # NoValue
    /\ FGt(CliHotVmp, I(0))
    /\ QualifyingSeries = {}
    /\ out.n_series = PyNone

\* ---------------------------------------------------------------------
\* The series-length calculators: the web form (app.py) and the script
\* (numero_de_modulos.py).  The coefficient is a fraction per degree here.

\* the cap the web form passes to calcular_n_max
WebCap == 100

\* the end of the script's range(1, 100), itself excluded
ScriptRangeStop == 100

\* the comparison with the strict sign
within_limit_Strict(voc_total, vmax_inv) == FLt(voc_total, vmax_inv)

\* voc_total <= vmax_inv
within_limit(voc_total, vmax_inv) == FLe(voc_total, vmax_inv)

\* voc_modulo * n * (1 + coef_temp * delta_T)
voc_total_of(voc_modulo, n, coef_temp, delta_T) ==
    FMul(FMul(voc_modulo, I(n)), FAdd(I(1), FMul(coef_temp, delta_T)))

\* the loop of calcular_n_max from n on, with the n_max found so far
RECURSIVE n_max_from(_, _, _, _, _, _, _)
n_max_from(n, n_max, voc_modulo, coef_temp, delta_T, vmax_inv, cap) ==
    IF n > cap THEN n_max
    ELSE IF within_limit(voc_total_of(voc_modulo, n, coef_temp, delta_T), vmax_inv)
         THEN n_max_from(n + 1, n, voc_modulo, coef_temp, delta_T, vmax_inv, cap)
         ELSE n_max

calcular_n_max(voc_modulo, coef_temp, temp_min, vmax_inv, cap) ==
    LET delta_T == FSub(temp_min, I(25))
    IN  [n_max |-> n_max_from(1, 0, voc_modulo, coef_temp, delta_T, vmax_inv, cap),
         delta_T |-> delta_T]

\* the POST branch of the web form, without the rendering of the page
web_form(form) ==
    LET res == calcular_n_max(form.Voc_modulo, form.coef_temp, form.temp_min,
                              form.voltaje_max, WebCap)
        voc_modulo_res_val ==
            FMul(form.Voc_modulo, FAdd(I(1), FMul(form.coef_temp, res.delta_T)))
        voc_total_val == FMul(voc_modulo_res_val, I(res.n_max))
        uso_pct_val == IF FGt(form.voltaje_max, I(0))
                       THEN FMul(FDiv(voc_total_val, form.voltaje_max), I(100))
                       ELSE I(0)
    IN  [n_max |-> res.n_max,
         voc_modulo_res |-> voc_modulo_res_val,
         voc_total |-> voc_total_val,
         uso_pct |-> uso_pct_val,
         uso_class |-> IF FLt(uso_pct_val, I(90)) THEN "ok"
                       ELSE IF FLe(uso_pct_val, I(100)) THEN "warn" ELSE "bad",
         show_results |-> TRUE]

\* the script's own loop over range(1, 100)
RECURSIVE N_modulos_max_from(_, _, _, _, _, _)
N_modulos_max_from(N, N_modulos_max, Voc_modulo, coef_temp, delta_T, voltaje_max_inversor) ==
    IF N >= ScriptRangeStop THEN N_modulos_max
    ELSE IF FLe(FMul(FMul(Voc_modulo, I(N)), FAdd(I(1), FMul(coef_temp, delta_T))),
                voltaje_max_inversor)
         THEN N_modulos_max_from(N + 1, N, Voc_modulo, coef_temp, delta_T,
                                 voltaje_max_inversor)
         ELSE N_modulos_max

numero_de_modulos(answers) ==
    LET delta_T == FSub(answers.temp_min, I(25))
        N_modulos_max == N_modulos_max_from(1, 0, answers.Voc_modulo, answers.coef_temp,
                                            delta_T, answers.voltaje_max)
    IN  [N_modulos_max |-> N_modulos_max,
         Voc_total_max |-> FMul(FMul(answers.Voc_modulo, I(N_modulos_max)),
                                FAdd(I(1), FMul(answers.coef_temp, delta_T)))]

\* the four numbers asked of the user by the form and by the script
FormInputs ==
    [Voc_modulo : {R(456, 10), I(40), I(2), I(0), I(0 - 5)},
     coef_temp : {R(0 - 3, 1000), I(0), R(1, 20)},
     temp_min : {I(0), I(25), I(0 - 10)},
     voltaje_max : {I(600), I(1000), I(30), I(0), I(0 - 10)}]

\* direct calls of calcular_n_max
NmaxInputs ==
    [voc_modulo : {R(456, 10), I(40), I(2), I(0 - 5)},
     coef_temp : {R(0 - 3, 1000), I(0), R(1, 20)},
     temp_min : {I(0), I(25), I(0 - 10)},
     vmax_inv : {I(600), I(30), I(0), I(0 - 10)},
     cap : {WebCap, 3, 0}]

InitNmax ==
    /\ pc = "call"
    /\ out = NoValue
    /\ \/ fn = "calcular_n_max" /\ inp \in NmaxInputs
       \/ fn = "main" /\ inp \in FormInputs
       \/ fn = "numero_de_modulos" /\ inp \in FormInputs

CalcularNMax ==
    /\ pc = "call"
    /\ fn = "calcular_n_max"
    /\ out' = calcular_n_max(inp.voc_modulo, inp.coef_temp, inp.temp_min,
                             inp.vmax_inv, inp.cap)
    /\ pc' = "return"
    /\ UNCHANGED <<fn, inp>>

WebForm ==
    /\ pc = "call"
    /\ fn = "main"
    /\ out' = web_form(inp)
    /\ pc' = "return"
    /\ UNCHANGED <<fn, inp>>

NumeroDeModulos ==
    /\ pc = "call"
    /\ fn = "numero_de_modulos"
    /\ out' = numero_de_modulos(inp)
    /\ pc' = "return"
    /\ UNCHANGED <<fn, inp>>

NextNmax == CalcularNMax \/ WebForm \/ NumeroDeModulos

SpecNmax == InitNmax /\ [][NextNmax]_vars

\* ---------------------------------------------------------------------
\* C21: temp_adjust(v, c, 0) is v for every value v and coefficient c, so at
\* T_amb_min = 25 the cold Voc per module of check_string and of
\* suggest_series_range is the module's STC Voc.
C21_NoAdjustmentAtReference ==
    /\ Returned("temp_adjust") /\ inp.delta_T = I(0) => out = inp.value_stc
    /\ Returned("check_string") /\ inp.T_amb_cold = I(25) =>
           out.temps.voc_cold = inp.mod.voc
    /\ Returned("suggest_series_range") /\ inp.T_amb_cold = I(25) =>
           out.voc_cold_mod = inp.mod.voc

\* a call of temp_adjust at the reference temperature with a coefficient
\* that changes the value at any other temperature
C21_Witness ==
    /\ Returned("temp_adjust")
    /\ inp.delta_T = I(0)
    /\ inp.coeff_pct_per_C # I(0)
    /\ inp.value_stc # I(0)
    /\ out = inp.value_stc

\* the share of channel i (from 1) when a strings are spread level by level
\* over n channels in channel order
LevelShare(a, n, i) == (a \div n) + (IF i - 1 < a % n THEN 1 ELSE 0)

\* C22 (as claimed): for max_parallel_per_mppt >= 1, with
\* A = min(required_strings, n_mppt * max_parallel_per_mppt), channel i gets
\* floor(A / n_mppt) + 1 if i < A mod n_mppt and floor(A / n_mppt) otherwise;
\* the input (5, 2, 3) gives [3, 2] with leftover 0.
C22_AsClaimed ==
    Returned("plan_distribution") /\ inp.max_parallel_per_mppt >= 1
        /\ inp.n_mppt >= 1 =>
        LET A == IMin(inp.required_strings, inp.n_mppt * inp.max_parallel_per_mppt)
        IN  \A i \in 1..inp.n_mppt : out.dist[i] = LevelShare(A, inp.n_mppt, i)

\* C22 (amended): the same with A = min(max(0, required_strings), n_mppt *
\* max_parallel_per_mppt); the counts are non-increasing in channel order and
\* any two differ by at most 1; the input (5, 2, 3) gives [3, 2] with
\* leftover 0.
C22_LevelByLevel ==
    Returned("plan_distribution") /\ inp.max_parallel_per_mppt >= 1
        /\ inp.n_mppt >= 1 =>
        LET A == IMin(IMax(0, inp.required_strings),
                      inp.n_mppt * inp.max_parallel_per_mppt)
        IN  /\ Len(out.dist) = inp.n_mppt
            /\ \A i \in 1..inp.n_mppt : out.dist[i] = LevelShare(A, inp.n_mppt, i)
            /\ \A i, j \in 1..inp.n_mppt :
                   /\ i < j => out.dist[i] >= out.dist[j]
                   /\ Abs(out.dist[i] - out.dist[j]) <= 1
            /\ inp = [required_strings |-> 5, n_mppt |-> 2,
                      max_parallel_per_mppt |-> 3] =>
                   out = [dist |-> <<3, 2>>, leftover |-> 0]

\* the plan for 5 strings on 2 channels of 3: the third level reaches the
\* first channel only
C22_Witness ==
    /\ Returned("plan_distribution")
    /\ inp = [required_strings |-> 5, n_mppt |-> 2, max_parallel_per_mppt |-> 3]
    /\ out.dist = <<3, 2>>
    /\ out.leftover = 0

\* the stricter of the two voltage ceilings of a call
VoltageLimit == FMin(inp.inv.vdc_max, inp.mod.max_system_v)

\* C23 (as claimed): min_series is max(1, ceil(mppt_min_v / hot Vmp)), or 1
\* for a hot Vmp <= 0, and max_series is the smaller of floor(min(vdc_max,
\* max_system_v) / cold Voc) and floor(mppt_max_v / hot Vmp), the second
\* being the sentinel only when mppt_max_v <= 0.
C23_AsClaimed ==
    Returned("suggest_series_range") /\ inp.mod.vmp # I(0)
        /\ ColdVocModule # I(0) =>
        /\ out.min_series =
               IF FGt(inp.mod.vmp, I(0))
               THEN IMax(1, Ceil(FDiv(inp.inv.mppt_min_v, inp.mod.vmp))) ELSE 1
        /\ out.max_series =
               IMin(Floor(FDiv(VoltageLimit, ColdVocModule)),
                    IF FGt(inp.inv.mppt_max_v, I(0))
                    THEN Floor(FDiv(inp.inv.mppt_max_v, inp.mod.vmp))
                    ELSE NoSeriesLimit)

\* C23 (amended): the same, with the second term of max_series the sentinel
\* 999 when mppt_max_v <= 0 or the hot Vmp is <= 0, and the first term the
\* sentinel when the cold Voc is <= 0; for Vmp = 41.5 V and mppt_min_v = 80 V
\* min_series is 2.
C23_SeriesRange ==
    Returned("suggest_series_range") =>
        /\ out.min_series =
               IF FGt(inp.mod.vmp, I(0))
               THEN IMax(1, Ceil(FDiv(inp.inv.mppt_min_v, inp.mod.vmp))) ELSE 1
        /\ out.max_series =
               IMin(IF FGt(ColdVocModule, I(0))
                    THEN Floor(FDiv(VoltageLimit, ColdVocModule)) ELSE NoSeriesLimit,
                    IF FGt(inp.inv.mppt_max_v, I(0)) /\ FGt(inp.mod.vmp, I(0))
                    THEN Floor(FDiv(inp.inv.mppt_max_v, inp.mod.vmp))
                    ELSE NoSeriesLimit)
        /\ inp.mod.vmp = R(83, 2) /\ inp.inv.mppt_min_v = I(80) => out.min_series = 2

\* the range for Vmp = 41.5 V against an 80 V MPPT minimum, bounded above by
\* the MPPT maximum
C23_Witness ==
    /\ Returned("suggest_series_range")
    /\ inp.mod.vmp = R(83, 2) /\ inp.inv.mppt_min_v = I(80)
    /\ out.min_series = 2
    /\ out.max_series = out.max_series_mppt
    /\ out.max_series < out.max_series_vlimit

\* floor(limit / current), taken as 0 for a current <= 0
AllowedBy(limit, current) ==
    IF FGt(current, I(0)) THEN Floor(FDiv(limit, current)) ELSE 0

\* C24: in a shortfall plan max_parallel_per_mppt is max(0, min(floor(
\* imax_mppt / Imp), floor(iscmax_mppt / cold Isc))), a term being 0 when its
\* divisor is <= 0; for the preset currents (imax_mppt = 11 A, Imp = 10.85 A)
\* the cap is 1 whatever the voltage limits are.
C24_MaxParallelPerMppt ==
    HasPlan =>
        LET inv == out.inputs.inverter
            mod == out.inputs.module
            isc_cold == out.string_check.temps.isc_cold
        IN  /\ out.recos.max_parallel_per_mppt =
                   IMax(0, IMin(AllowedBy(inv.imax_mppt, mod.imp),
                                AllowedBy(inv.iscmax_mppt, isc_cold)))
            /\ /\ inv.imax_mppt = I(11) /\ mod.imp = R(217, 20)
               /\ inv.iscmax_mppt = R(69, 5) /\ isc_cold = R(58, 5)
               => out.recos.max_parallel_per_mppt = 1

\* a plan whose cap is 1 by the operating current under a lowered voltage
\* ceiling
C24_Witness ==
    /\ HasPlan
    /\ out.inputs.inverter.imax_mppt = I(11)
    /\ out.inputs.module.imp = R(217, 20)
    /\ out.inputs.inverter.vdc_max = I(150)
    /\ ~out.string_check.checks.vdc_max_ok
    /\ out.recos.max_parallel_per_mppt = 1

\* the rated power of one string of a report, n_series * wp
StringWp == FMul(I(out.inputs.n_series), out.inputs.module.wp)

\* C25: in a shortfall plan strings_req is ceil(P_req_wp / (n_series * wp))
\* for a positive n_series * wp, and the planned totals are those of the
\* planned distribution: total_wp_target = n_series * wp * sum(target_dist)
\* and prod_day_target = total_wp_target / 1000 * HSP * PR.
C25_PlannedTotals ==
    HasPlan =>
        /\ FGt(StringWp, I(0)) =>
               out.recos.strings_req = Ceil(FDiv(out.P_req_wp, StringWp))
        /\ out.recos.total_wp_target = FMul(StringWp, I(Sum(out.recos.target_dist)))
        /\ out.recos.prod_day_target =
               FMul(FMul(FDiv(out.recos.total_wp_target, I(1000)), out.inputs.HSP),
                    out.inputs.PR)

\* a plan whose distribution holds more strings than the current
\* configuration, so that the planned power is above the installed power
C25_Witness ==
    /\ HasPlan
    /\ FGt(StringWp, I(0))
    /\ Sum(out.recos.target_dist) > out.recos.strings_actual
    /\ FGt(out.recos.total_wp_target, out.total.wp)
    /\ ~IsNaN(out.P_req_wp)
    /\ Ceil(FDiv(out.P_req_wp, StringWp)) # Floor(FDiv(out.P_req_wp, StringWp))

\* a shortfall plan for positive HSP, PR and wp and n_series >= 1
HasSoundPlan ==
    /\ HasPlan
    /\ FGt(out.inputs.HSP, I(0)) /\ FGt(out.inputs.PR, I(0))
    /\ out.inputs.n_series >= 1
    /\ FGt(out.inputs.module.wp, I(0))

Results(report) ==
    IF report.raised # "" THEN [raised |-> report.raised]
    ELSE [raised |-> "", ranges |-> report.ranges,
          string_check |-> report.string_check, P_req_wp |-> report.P_req_wp,
          total |-> report.total, recos |-> report.recos]

\* a report's echoed inputs without T_cell_hot
OtherInputs(report) ==
    IF report.raised # "" THEN NoValue
    ELSE [key \in DOMAIN report.inputs \ {"T_cell_hot"} |-> report.inputs[key]]

\* the values of T_cell_hot that the mapping of a call is compared under
HotAlternatives == {PyNone, PyNum(I(25)), PyNum(I(45)), PyNum(I(90)), PyStr(I(0))}

\* C26: the report for a mapping and the report for the same mapping with any
\* other T_cell_hot agree in ranges, string_check, P_req_wp, totals and recos
\* and in every echoed input but T_cell_hot; the hot Vmp and the Isc are the
\* STC values and only Voc is derated, by beta and T_amb_min.
C26_HotCellTemperatureUnused ==
    Returned("compute_report") =>
        /\ \A hot \in HotAlternatives :
               LET other == compute_report([inp EXCEPT !.T_cell_hot = hot])
               IN  /\ Results(other) = Results(out)
                   /\ OtherInputs(other) = OtherInputs(out)
        /\ out.raised = "" =>
               /\ out.string_check.temps.vmp_hot = out.inputs.module.vmp
               /\ out.string_check.temps.isc_cold = out.inputs.module.isc
               /\ out.string_check.temps.voc_cold =
                      FMul(out.inputs.module.voc,
                           FAdd(I(1),
                                FMul(FDiv(out.inputs.module.beta_voc_pct_per_C, I(100)),
                                     FSub(out.inputs.T_amb_min, I(25)))))

\* a report for a hot cell at 45 C that differs from the report for the
\* default 65 C in the echoed T_cell_hot only, with Voc derated
C26_Witness ==
    /\ Returned("compute_report") /\ out.raised = ""
    /\ inp.T_cell_hot = PyNum(I(45))
    /\ out.inputs.T_cell_hot = I(45)
    /\ compute_report([inp EXCEPT !.T_cell_hot = PyNone]).inputs.T_cell_hot = I(65)
    /\ out.string_check.temps.voc_cold # out.inputs.module.voc
    /\ out.recos.present

\* voc * k * (1 + coef * (temp_min - 25)) <= vmax
FitsLimit(voc, coef, temp_min, vmax, k) ==
    FLe(FMul(FMul(voc, I(k)), FAdd(I(1), FMul(coef, FSub(temp_min, I(25))))), vmax)

\* n is the largest of 0..cap with every k of 1..n within the limit
LargestWithin(voc, coef, temp_min, vmax, cap, n) ==
    /\ n \in 0..cap
    /\ \A k \in 1..n : FitsLimit(voc, coef, temp_min, vmax, k)
    /\ \A larger \in (n + 1)..cap :
           \E k \in 1..larger : ~FitsLimit(voc, coef, temp_min, vmax, k)

\* the module's Voc at the minimum temperature
ColdVoc(voc, coef, temp_min) ==
    FMul(voc, FAdd(I(1), FMul(coef, FSub(temp_min, I(25)))))

\* the loop's result as the claim words it
NmaxAsClaimed(voc, coef, temp_min, vmax, cap, n) ==
    /\ LargestWithin(voc, coef, temp_min, vmax, cap, n)
    /\ ~FitsLimit(voc, coef, temp_min, vmax, 1) => n = 0
    /\ n <= cap
    /\ FGt(ColdVoc(voc, coef, temp_min), I(0)) =>
           n = IMin(cap, Floor(FDiv(vmax, ColdVoc(voc, coef, temp_min))))

\* the same with the quotient clamped at 0
NmaxClamped(voc, coef, temp_min, vmax, cap, n) ==
    /\ LargestWithin(voc, coef, temp_min, vmax, cap, n)
    /\ ~FitsLimit(voc, coef, temp_min, vmax, 1) => n = 0
    /\ n <= cap
    /\ FGt(ColdVoc(voc, coef, temp_min), I(0)) =>
           n = IMax(0, IMin(cap, Floor(FDiv(vmax, ColdVoc(voc, coef, temp_min)))))

MonthlyAsDaily(kwh_month, days) ==
    IF days.n = 0 THEN NaN ELSE FDiv(FMul(kwh_month, I(1000)), days)

\* C30 (as claimed): in every report the echoed energy inputs agree,
\* whichever was supplied: inputs.wh_day = inputs.kwh_month * 1000 /
\* inputs.days, a positive wh_day being echoed beside kwh_month = wh_day *
\* days / 1000 and a kwh_month beside wh_day = kwh_month * 1000 / days.
C30_EchoedEnergyConsistent ==
    Returned("compute_report") /\ out.raised = "" =>
        /\ FEq(out.inputs.wh_day,
               MonthlyAsDaily(out.inputs.kwh_month, out.inputs.days))
        /\ FGt(WhDay, I(0)) =>
               out.inputs.kwh_month = FDiv(FMul(WhDay, out.inputs.days), I(1000))
        /\ ~FGt(WhDay, I(0)) =>
               /\ out.inputs.kwh_month = KwhMonth
               /\ FEq(out.inputs.wh_day, MonthlyAsDaily(KwhMonth, out.inputs.days))

====
